---- MODULE Spec2Model ----
(***************************************************************************)
(* Notification dispatch pipeline of the laundry backend:                  *)
(*   app/services/notification_service.py  (NotificationService)           *)
(*   app/services/whatsapp.py              (WhatsAppService)               *)
(*   app/tasks/notification_tasks.py       (periodic celery tasks)         *)
(*   app/api/v1/endpoints/notifications.py (HTTP endpoints)                *)
(*                                                                         *)
(* The data store is the shared state.  Every db.commit() of the code is   *)
(* one atomic step; what a handler holds between two commits (its ORM      *)
(* objects, the channel result) is the handler's local state.              *)
(***************************************************************************)
EXTENDS Integers, Sequences, FiniteSets, TLC

(* ----------------------------- bounds --------------------------------- *)
\* Number of NotificationRecords the runs of a specification create.
MaxNotifs == 1
SerialNotifs == 2
ScheduleNotifs == 1
RaceNotifs == 1
OptOutNotifs == 1
PreferenceNotifs == 1
TemplateNotifs == 1
BulkNotifs == 2
\* Number of customer ids in the short bulk requests.
BulkLen == 2
\* Number of webhook POSTs the runs record, status sub-events per POST, and tokens in
\* a signature header.
HookEvents == 2
HookLen == 1
HeaderLen == 2
\* Pieces in a template body, parameters in a list, free leading characters of a
\* phone number.
BodyPieces == 2
MaxParams == 2
RetryNotifs == 1
PhoneHead == 2
StatsNotifs == 3
SignatureEvents == 1
\* The clock runs over 0..MaxTime.
MaxTime == 1

(* ------------------------- values and domains -------------------------- *)
\* SQL NULL / Python None of scheduled_at.  The other timestamp columns (sent_at,
\* delivered_at, read_at, updated_at) are modelled by whether they are set.
NoTime == -1
\* SQL NULL of whatsapp_message_id; provider ids are pairs <<record, transmission>>.
NoId == <<0, 0>>
\* A provider message id that belongs to no record of this deployment.
UnknownId == <<0, 1>>
\* None or "" of settings.whatsapp_app_secret, and a configured secret.
NoSecret == "<none>"
Secret == "s"
\* SQL NULL of a text column (distinct from the empty string "").
NoError == "<null>"
\* None or "" of an optional request string: Python truthiness treats both alike.
NoText == "<none>"
NoTemplate == "<none>"
NoPhone == "<none>"

PENDING == "PENDING"
SENT == "SENT"
DELIVERED == "DELIVERED"
READ == "READ"
FAILED == "FAILED"
REJECTED == "REJECTED"
MessageStatus == {PENDING, SENT, DELIVERED, READ, FAILED, REJECTED}

NotificationType ==
    {"ORDER_CONFIRMATION", "STATUS_UPDATE", "PICKUP_REMINDER", "DELIVERY_REMINDER",
     "PAYMENT_CONFIRMATION", "LOYALTY_UPDATE", "PROMOTIONAL", "FEEDBACK_REQUEST",
     "CUSTOM"}

\* Customer ids a request may name; a customer row exists for the ids in DOMAIN customers.
CustomerIds == {1, 2}
ProfilePhone == "9876543210"
OverridePhone == "9123456780"

\* The error texts a failed channel call returns: the provider's error message, or
\* str(e) of the exception, which is "" for an exception raised without a message
\* (asyncio.TimeoutError on the HTTP client's timeout).
ProviderErrors == {"", "provider error"}
DisabledError == "WhatsApp notifications disabled"

TemplateName == "order_confirmation"
RenderedText == "rendered:order_confirmation"
CustomText == "custom text"
DefaultText == "Order update"
\* str(e) of the TypeError Python raises when an offset-aware datetime is ordered
\* against the offset-naive datetime.utcnow().
CompareError == "can't compare offset-naive and offset-aware datetimes"

\* max_retries of the periodic task and default of the admin endpoint.
DomesticLen == 10
MaxRetries == 3
\* The smallest max_retries the admin endpoint accepts (ge=1).
MinRetries == 1
RetryProcs == {"task", "admin"}

(* ------------------------------ state ---------------------------------- *)
VARIABLES
    enabled,     \* settings.whatsapp_enabled
    customers,   \* customers table: id -> [phone]
    prefs,       \* notification_preferences table: customer id -> row (partial)
    templates,   \* message_templates table: set of rows
    notifs,      \* notifications table: sequence of rows, id = index
    tx,          \* per record: HTTP posts made to the provider, by operation
    now,         \* datetime.utcnow()
    sendP,       \* the send_notification call in progress
    disp,        \* the send_scheduled_notifications task run in progress
    retry,       \* the retry_failed_notifications runs in progress
    serial,      \* TRUE: operations are served one at a time (no overlap)
    app_secret,  \* settings.whatsapp_app_secret
    events,      \* webhook_events table: sequence of rows, id = index
    hook,        \* the handle_whatsapp_webhook call in progress
    bulk,        \* the send_bulk_notifications call in progress
    call         \* the helper call in progress (rendering, phone cleaning, statistics)

vars == <<enabled, customers, prefs, templates, notifs, tx, now, sendP, disp, retry, serial,
          app_secret, events, hook, bulk, call>>

config == <<enabled, customers, templates, serial>>
\* The webhook ingestor's settings, table and handler.
ingest == <<app_secret, events, hook>>

(* ----------------------- preference store ------------------------------ *)
DefaultPreference ==
    [whatsapp_opted_in |-> TRUE, whatsapp_phone |-> NoPhone,
     order_updates |-> TRUE, pickup_reminders |-> TRUE, promotional_messages |-> TRUE,
     loyalty_updates |-> TRUE, feedback_requests |-> TRUE]

PreferenceFlags ==
    {"whatsapp_opted_in", "order_updates", "pickup_reminders", "promotional_messages",
     "loyalty_updates", "feedback_requests"}

\* The preferences table after _get_notification_preferences(customer_id).
WithPreferences(ps, cid) ==
    IF cid \in DOMAIN ps THEN ps ELSE ps @@ (cid :> DefaultPreference)

TypeSwitch(p, t) ==
    CASE t \in {"ORDER_CONFIRMATION", "STATUS_UPDATE", "PAYMENT_CONFIRMATION"} -> p.order_updates
      [] t \in {"PICKUP_REMINDER", "DELIVERY_REMINDER"} -> p.pickup_reminders
      [] t = "LOYALTY_UPDATE" -> p.loyalty_updates
      [] t = "PROMOTIONAL" -> p.promotional_messages
      [] t = "FEEDBACK_REQUEST" -> p.feedback_requests
      [] OTHER -> TRUE

\* The master switch alone.
ShouldSendMasterOnly(p, t) == p.whatsapp_opted_in

ShouldSendNotification(p, t) ==
    IF ~p.whatsapp_opted_in THEN FALSE ELSE TypeSwitch(p, t)

(* ----------------------- template store -------------------------------- *)
UsableTemplatesUnapproved(name) ==
    {t \in templates : t.template_name = name /\ t.is_active}

\* Lines 67-71: template_name == name, is_active, is_approved.
UsableTemplates(name) ==
    {t \in templates : t.template_name = name /\ t.is_active /\ t.is_approved}

(* ----------------------- notification rows ----------------------------- *)
NewNotification(req, phone, text) ==
    [customer_id |-> req.customer_id,
     notification_type |-> req.notification_type,
     recipient_phone |-> phone,
     message_text |-> text,
     template_name |-> req.template_name,
     scheduled_at |-> req.scheduled_at,
     status |-> PENDING,
     whatsapp_message_id |-> NoId,
     delivery_status |-> NoText,
     error_message |-> NoError,
     retry_count |-> 0,
     sent_at |-> FALSE,
     delivered_at |-> FALSE,
     read_at |-> FALSE,
     updated_at |-> FALSE]

NoTx == [send |-> 0, dispatch |-> 0, retry |-> 0]
TxTotal(n) == tx[n].send + tx[n].dispatch + tx[n].retry

Ids == 1..Len(notifs)

(* ----------------------- channel client -------------------------------- *)
Truthy(s) == s \notin {NoError, ""}

\* What send_template_message / send_text_message can return for record n.
ChannelResults(n) ==
    IF ~enabled
    THEN {[success |-> FALSE, message_id |-> NoId, error |-> DisabledError]}
    ELSE {[success |-> TRUE, message_id |-> <<n, TxTotal(n) + 1>>, error |-> NoError]}
         \cup {[success |-> FALSE, message_id |-> NoId, error |-> e] : e \in ProviderErrors}

\* _update_notification_status: a session of its own, one commit.
UpdateNotificationStatus(ns, n, status, message_id, error_message) ==
    [ns EXCEPT ![n] =
        [@ EXCEPT
            !.status = status,
            !.updated_at = TRUE,
            !.whatsapp_message_id = IF message_id # NoId THEN message_id ELSE @,
            !.sent_at = IF message_id # NoId THEN TRUE ELSE @,
            !.error_message = IF Truthy(error_message) THEN error_message ELSE @,
            !.retry_count = IF Truthy(error_message) THEN @ + 1 ELSE @]]

\* The notifications table after the channel call for record n returned res.
AfterChannel(ns, n, res) ==
    IF ~enabled THEN ns
    ELSE IF res.success THEN UpdateNotificationStatus(ns, n, SENT, res.message_id, NoError)
    ELSE UpdateNotificationStatus(ns, n, FAILED, NoId, res.error)

\* The provider's log after one HTTP post for record n made by operation op.
Transmitted(n, op) ==
    IF ~enabled THEN tx ELSE [tx EXCEPT ![n][op] = @ + 1]

(* ----------------------- process states -------------------------------- *)
NoResult == [success |-> FALSE, message_id |-> NoId, error |-> NoError]
NoOutcome == [success |-> FALSE, error |-> NoError, status |-> "none",
              notification_id |-> 0, message_id |-> NoId]
NoRequest == [template_name |-> NoTemplate, customer_id |-> 0, notification_type |-> "CUSTOM",
              scheduled_at |-> NoTime, custom_message |-> NoText, tz_aware |-> FALSE]

SendIdle == [pc |-> "idle", req |-> NoRequest, nid |-> 0, result |-> NoResult, out |-> NoOutcome]
TaskIdle == [pc |-> "idle", queue |-> <<>>, result |-> NoResult]
RetryIdle == [pc |-> "idle", queue |-> <<>>, result |-> NoResult,
              max_retries |-> MaxRetries, expired |-> FALSE, loaded_rc |-> 0, before |-> 0]

NoResponse == "<none>"
HookIdle == [pc |-> "idle", event |-> 0, left |-> 0, header |-> <<>>, verified |-> FALSE,
             response |-> NoResponse]
NoCall == [fn |-> "none"]
NoBulkRequest == [customer_ids |-> <<>>, template_parameters |-> 0]
BulkIdle == [pc |-> "idle", req |-> NoBulkRequest, queue |-> <<>>, invoked |-> <<>>,
             success |-> 0, failed |-> 0, errors |-> <<>>]

AllIdle ==
    /\ sendP.pc = "idle"
    /\ disp.pc = "idle"
    /\ \A p \in RetryProcs : retry[p].pc = "idle"
    /\ hook.pc = "idle"
    /\ bulk.pc = "idle"
\* An operation may start when operations overlap freely, or when none is running.
MayStart == serial => AllIdle

Failure(msg) == [NoOutcome EXCEPT !.error = msg]
\* The call has returned out for request req; the caller has not yet taken it.
Returned(req, out) == [SendIdle EXCEPT !.pc = "returned", !.req = req, !.out = out]

(* ----------------------- send_notification ----------------------------- *)
RecipientPhoneProfileFirst(p, profile) ==
    IF profile # NoPhone THEN profile ELSE p.whatsapp_phone

\* Line 48: preferences.whatsapp_phone or customer.user.phone.
RecipientPhone(p, profile) ==
    IF p.whatsapp_phone # NoPhone THEN p.whatsapp_phone ELSE profile

\* Lines 34-97: validation, record creation (first commit), schedule decision; lines
\* 118-121: an exception raised on the way is caught and returned as a failure.
SendCreate(req, cap) ==
    /\ sendP.pc = "idle"
    /\ MayStart
    /\ IF req.customer_id \notin DOMAIN customers
       THEN /\ sendP' = Returned(req, Failure("Customer not found"))
            /\ UNCHANGED <<prefs, notifs, tx>>
       ELSE LET ps == WithPreferences(prefs, req.customer_id)
                p == ps[req.customer_id]
                phone == RecipientPhone(p, customers[req.customer_id].phone)
                text == IF req.template_name # NoTemplate THEN RenderedText
                        ELSE IF req.custom_message # NoText THEN req.custom_message
                        ELSE DefaultText
                nid == Len(notifs) + 1
            IN  /\ prefs' = ps
                /\ IF ~ShouldSendNotification(p, req.notification_type)
                   THEN /\ sendP' = Returned(req, Failure("Customer opted out"))
                        /\ UNCHANGED <<notifs, tx>>
                   ELSE IF phone = NoPhone
                   THEN /\ sendP' = Returned(req, Failure("No phone number available"))
                        /\ UNCHANGED <<notifs, tx>>
                   ELSE IF req.template_name # NoTemplate /\ UsableTemplates(req.template_name) = {}
                   THEN /\ sendP' = Returned(req, Failure("Template not found or not approved"))
                        /\ UNCHANGED <<notifs, tx>>
                   ELSE /\ Len(notifs) < cap
                        /\ notifs' = Append(notifs, NewNotification(req, phone, text))
                        /\ tx' = Append(tx, NoTx)
                        /\ IF req.scheduled_at # NoTime /\ req.tz_aware
                           THEN sendP' = Returned(req, Failure(CompareError))
                           ELSE IF req.scheduled_at # NoTime /\ req.scheduled_at > now
                           THEN sendP' = Returned(req, [NoOutcome EXCEPT !.success = TRUE,
                                                         !.status = "scheduled",
                                                         !.notification_id = nid])
                           ELSE sendP' = [SendIdle EXCEPT !.pc = "transmit", !.req = req, !.nid = nid]
    /\ UNCHANGED <<config, call, ingest, bulk, now, disp, retry>>

\* Line 100: _send_whatsapp_notification, with the channel's own status write.
SendTransmit ==
    /\ sendP.pc = "transmit"
    /\ \E res \in ChannelResults(sendP.nid) :
        /\ notifs' = AfterChannel(notifs, sendP.nid, res)
        /\ tx' = Transmitted(sendP.nid, "send")
        /\ sendP' = [sendP EXCEPT !.pc = "commit", !.result = res]
    /\ UNCHANGED <<config, call, ingest, bulk, prefs, now, disp, retry>>

\* Lines 102-116: the orchestrator's update of its own ORM object, second commit, return.
SendCommit ==
    /\ sendP.pc = "commit"
    /\ LET res == sendP.result
           n == sendP.nid
       IN /\ notifs' = [notifs EXCEPT ![n] =
                [@ EXCEPT
                    !.status = IF res.success THEN SENT ELSE FAILED,
                    !.whatsapp_message_id = IF res.message_id # NoId THEN res.message_id ELSE @,
                    !.error_message = IF Truthy(res.error) THEN res.error ELSE @,
                    !.updated_at = TRUE]]
          /\ sendP' = [SendIdle EXCEPT !.pc = "returned", !.req = sendP.req,
                          !.out = [success |-> res.success, error |-> res.error,
                                   status |-> "sent", notification_id |-> n,
                                   message_id |-> res.message_id]]
    /\ UNCHANGED <<config, call, ingest, bulk, prefs, tx, now, disp, retry>>

\* The worker dies between the create-record commit and the post-send commit.
SendCrash ==
    /\ sendP.pc \in {"transmit", "commit"}
    /\ sendP' = SendIdle
    /\ UNCHANGED <<config, call, ingest, bulk, prefs, notifs, tx, now, disp, retry>>

\* The caller has the response; the handler is free for the next request.
SendDone ==
    /\ sendP.pc = "returned"
    /\ sendP' = SendIdle
    /\ UNCHANGED <<config, call, ingest, bulk, prefs, notifs, tx, now, disp, retry>>

(* ------------------ send_scheduled_notifications ----------------------- *)
\* The rows a query returned, in id order.
RECURSIVE QueryAll(_)
QueryAll(S) ==
    IF S = {} THEN <<>>
    ELSE LET m == CHOOSE x \in S : \A y \in S : x <= y
         IN <<m>> \o QueryAll(S \ {m})

\* Lines 164-168: status == PENDING and scheduled_at <= now (a NULL scheduled_at
\* satisfies no comparison).
IsDue(n) ==
    /\ notifs[n].status = PENDING
    /\ notifs[n].scheduled_at # NoTime
    /\ notifs[n].scheduled_at <= now

DispatchSelect ==
    /\ disp.pc = "idle"
    /\ MayStart
    /\ LET q == QueryAll({n \in Ids : IsDue(n)})
       IN disp' = IF q = <<>> THEN TaskIdle ELSE [TaskIdle EXCEPT !.pc = "transmit", !.queue = q]
    /\ UNCHANGED <<config, call, ingest, bulk, prefs, notifs, tx, now, sendP, retry>>

\* Lines 174-181: _send_whatsapp_notification for the next selected row.
DispatchTransmit ==
    /\ disp.pc = "transmit"
    /\ LET n == Head(disp.queue)
       IN \E res \in ChannelResults(n) :
            /\ notifs' = AfterChannel(notifs, n, res)
            /\ tx' = Transmitted(n, "dispatch")
            /\ disp' = [disp EXCEPT !.pc = "commit", !.result = res]
    /\ UNCHANGED <<config, call, ingest, bulk, prefs, now, sendP, retry>>

\* Lines 183-195: the task's update of its ORM object and commit.
DispatchCommit ==
    /\ disp.pc = "commit"
    /\ LET n == Head(disp.queue)
           res == disp.result
           rest == Tail(disp.queue)
       IN /\ notifs' = [notifs EXCEPT ![n] =
                [@ EXCEPT
                    !.status = IF res.success THEN SENT ELSE FAILED,
                    !.whatsapp_message_id =
                        IF res.success /\ res.message_id # NoId THEN res.message_id ELSE @,
                    !.error_message = IF res.success THEN @ ELSE res.error,
                    !.sent_at = TRUE,
                    !.updated_at = TRUE]]
          /\ disp' = IF rest = <<>> THEN TaskIdle
                     ELSE [TaskIdle EXCEPT !.pc = "transmit", !.queue = rest]
    /\ UNCHANGED <<config, call, ingest, bulk, prefs, tx, now, sendP, retry>>

(* ------------------- retry_failed_notifications ------------------------ *)
IsRetryableOneShort(n, max_retries) ==
    /\ notifs[n].status = FAILED
    /\ notifs[n].retry_count < max_retries - 1

IsRetryableUpTo(n, max_retries) ==
    /\ notifs[n].status = FAILED
    /\ notifs[n].retry_count <= max_retries

\* Lines 388-391: status == FAILED and retry_count < max_retries.
IsRetryable(n, max_retries) ==
    /\ notifs[n].status = FAILED
    /\ notifs[n].retry_count < max_retries

RetrySelect(p, max_retries) ==
    /\ retry[p].pc = "idle"
    /\ MayStart
    /\ LET q == QueryAll({n \in Ids : IsRetryable(n, max_retries)})
       IN retry' = [retry EXCEPT ![p] =
                IF q = <<>> THEN RetryIdle
                ELSE [RetryIdle EXCEPT !.pc = "transmit", !.queue = q,
                                       !.max_retries = max_retries,
                                       !.loaded_rc = notifs[Head(q)].retry_count]]
    /\ UNCHANGED <<config, call, ingest, bulk, prefs, notifs, tx, now, sendP, disp>>

\* Line 397.  The rows were loaded by the query; every commit of the session expires
\* them, so from the second row on the attributes are read again here.
RetryTransmit(p) ==
    /\ retry[p].pc = "transmit"
    /\ LET n == Head(retry[p].queue)
       IN \E res \in ChannelResults(n) :
            /\ notifs' = AfterChannel(notifs, n, res)
            /\ tx' = Transmitted(n, "retry")
            /\ retry' = [retry EXCEPT ![p] =
                    [@ EXCEPT !.pc = "commit", !.result = res,
                              !.loaded_rc = IF retry[p].expired THEN notifs[n].retry_count ELSE @,
                              !.before = notifs[n].retry_count]]
    /\ UNCHANGED <<config, call, ingest, bulk, prefs, now, sendP, disp>>

\* Lines 399-419: retry_count += 1 on the loaded object, outcome, commit.
RetryCommit(p) ==
    /\ retry[p].pc = "commit"
    /\ LET n == Head(retry[p].queue)
           res == retry[p].result
           rest == Tail(retry[p].queue)
       IN /\ notifs' = [notifs EXCEPT ![n] =
                [@ EXCEPT
                    !.retry_count = retry[p].loaded_rc + 1,
                    !.updated_at = TRUE,
                    !.status = IF res.success THEN SENT ELSE @,
                    !.whatsapp_message_id =
                        IF res.success /\ res.message_id # NoId THEN res.message_id ELSE @,
                    !.error_message = IF res.success THEN @ ELSE res.error]]
          /\ retry' = [retry EXCEPT ![p] =
                IF rest = <<>> THEN RetryIdle
                ELSE [@ EXCEPT !.pc = "transmit", !.queue = rest, !.result = NoResult,
                               !.expired = TRUE]]
    /\ UNCHANGED <<config, call, ingest, bulk, prefs, tx, now, sendP, disp>>

(* ----------------------- webhook ingestor ------------------------------ *)
StatusTypes == {"sent", "delivered", "read", "failed"}
WebhookFailTitle == "Message failed"

\* The ids the provider has issued that some row carries.
KnownIds == {notifs[n].whatsapp_message_id : n \in Ids} \ {NoId}

ProcessStatusUpdateRegressing(ns, message_id, status_type) ==
    LET match == {n \in 1..Len(ns) : ns[n].whatsapp_message_id = message_id}
    IN IF match = {} THEN ns
       ELSE LET n == CHOOSE m \in match : \A k \in match : m <= k
            IN [ns EXCEPT ![n] =
                 [@ EXCEPT
                    !.status = CASE status_type = "delivered" -> DELIVERED
                                 [] status_type = "read" -> READ
                                 [] status_type = "failed" -> FAILED
                                 [] OTHER -> SENT,
                    !.delivered_at = IF status_type = "delivered" THEN TRUE ELSE @,
                    !.read_at = IF status_type = "read" THEN TRUE ELSE @,
                    !.error_message = IF status_type = "failed" THEN WebhookFailTitle ELSE @,
                    !.delivery_status = status_type,
                    !.updated_at = TRUE]]

\* _process_status_update for one status sub-event.
ProcessStatusUpdate(ns, message_id, status_type) ==
    LET match == {n \in 1..Len(ns) : ns[n].whatsapp_message_id = message_id}
    IN IF match = {} THEN ns
       ELSE LET n == CHOOSE m \in match : \A k \in match : m <= k
            IN [ns EXCEPT ![n] =
                 [@ EXCEPT
                    !.status = CASE status_type = "delivered" -> DELIVERED
                                 [] status_type = "read" -> READ
                                 [] status_type = "failed" -> FAILED
                                 [] OTHER -> @,
                    !.delivered_at = IF status_type = "delivered" THEN TRUE ELSE @,
                    !.read_at = IF status_type = "read" THEN TRUE ELSE @,
                    !.error_message = IF status_type = "failed" THEN WebhookFailTitle ELSE @,
                    !.delivery_status = status_type,
                    !.updated_at = TRUE]]

\* The effect on the notification table of a callback carrying one well-formed status
\* sub-event; its audit row and response are followed by HookReceive .. HookDone.
WebhookStatus(message_id, status_type) ==
    /\ MayStart
    /\ notifs' = ProcessStatusUpdate(notifs, message_id, status_type)
    /\ UNCHANGED <<config, call, ingest, bulk, prefs, tx, now, sendP, disp, retry>>

(* ------------------ send_bulk_notifications --------------------------- *)
\* The limits of the request schemas.
BatchLimit == 100
ParamLimit == 10

ValidCustomerIdsUnbounded(ids) == TRUE

\* BulkNotificationRequest.validate_customer_ids.
ValidCustomerIds(ids) == Len(ids) <= BatchLimit

\* SendNotificationRequest.validate_parameters, on a list of k parameters.
ValidParameters(k) == k <= ParamLimit

\* Lines 132-139: the request built for one customer of the batch.
ItemRequest(cid) ==
    [NoRequest EXCEPT !.customer_id = cid, !.notification_type = "ORDER_CONFIRMATION",
                      !.template_name = TemplateName]

\* POST /send-bulk: the body is validated against BulkNotificationRequest, then the
\* batch is handed to a background task.
BulkReceive(req) ==
    /\ bulk.pc = "idle"
    /\ sendP.pc = "idle"
    /\ bulk' = IF ValidCustomerIds(req.customer_ids)
               THEN [BulkIdle EXCEPT !.pc = "loop", !.req = req, !.queue = req.customer_ids]
               ELSE [BulkIdle EXCEPT !.pc = "rejected", !.req = req]
    /\ UNCHANGED <<config, call, ingest, prefs, notifs, tx, now, sendP, disp, retry>>

\* Lines 131-141: the next customer's request is built and send_notification is
\* entered; a ValidationError of the per-item request leaves the loop and the task.
BulkItem(cap) ==
    /\ bulk.pc = "loop"
    /\ bulk.queue # <<>>
    /\ sendP.pc = "idle"
    /\ IF ~ValidParameters(bulk.req.template_parameters)
       THEN /\ bulk' = [bulk EXCEPT !.pc = "raised"]
            /\ UNCHANGED <<config, call, ingest, prefs, notifs, tx, now, sendP, disp, retry>>
       ELSE SendCreate(ItemRequest(Head(bulk.queue)), cap)

\* Lines 143-150: the item's result is tallied.
BulkCollect ==
    /\ bulk.pc = "loop"
    /\ sendP.pc = "returned"
    /\ bulk' = [bulk EXCEPT
                  !.queue = Tail(@),
                  !.invoked = Append(@, sendP.req.customer_id),
                  !.success = IF sendP.out.success THEN @ + 1 ELSE @,
                  !.failed = IF sendP.out.success THEN @ ELSE @ + 1,
                  !.errors = IF sendP.out.success THEN @
                             ELSE Append(@, [customer_id |-> Head(bulk.queue),
                                             error |-> sendP.out.error])]
    /\ sendP' = SendIdle
    /\ UNCHANGED <<config, call, ingest, prefs, notifs, tx, now, disp, retry>>

\* Line 155: return results.
BulkReturn ==
    /\ bulk.pc = "loop"
    /\ bulk.queue = <<>>
    /\ sendP.pc = "idle"
    /\ bulk' = [bulk EXCEPT !.pc = "returned"]
    /\ UNCHANGED <<config, call, ingest, prefs, notifs, tx, now, sendP, disp, retry>>

\* The background task (or the rejected request) is over.
BulkDone ==
    /\ bulk.pc \in {"returned", "rejected", "raised"}
    /\ bulk' = BulkIdle
    /\ UNCHANGED <<config, call, ingest, prefs, notifs, tx, now, sendP, disp, retry>>

(* ------------------ POST /webhook/whatsapp ----------------------------- *)
\* An X-Hub-Signature-256 header as a sequence of pieces: the literal "sha256=", the
\* same with one byte changed, the hex digest of HMAC-SHA256(app_secret, body), and
\* another string of hex digits.
Prefix == "sha256="
MutatedPrefix == "sha256:"
Digest == "hexdigest(hmac(app_secret, body))"
OtherDigest == "other hex digits"
HeaderTokens == {Prefix, MutatedPrefix, Digest, OtherDigest}
Headers == UNION {[1..k -> HeaderTokens] : k \in 0..HeaderLen}

IsNotPrefix(t) == t # Prefix

\* verify_webhook_signature: str.replace removes every occurrence of 'sha256='.
VerifyWebhookSignature(secret, signature) ==
    IF secret = NoSecret THEN TRUE
    ELSE SelectSeq(signature, IsNotPrefix) = <<Digest>>

\* The responses of the endpoint.
Ok200 == "200 success"
BadJson == "400 Invalid JSON payload"
AuthFailure == "403 Invalid signature"
ProcessingFailed == "500 Webhook processing failed"
Unhandled == "500 Internal Server Error"

\* Lines 393-397: the except clauses met by an exception raised in the try block.
\* `import json` (line 382) makes json a local name of the handler, so naming
\* json.JSONDecodeError before the import has run raises UnboundLocalError.
ExceptChain(raised, json_bound) ==
    IF ~json_bound THEN Unhandled
    ELSE IF raised = "JSONDecodeError" THEN BadJson
    ELSE ProcessingFailed

\* The shapes of the "errors" member of a 'failed' sub-event: no member, [], [{}],
\* [{"title": ...}].
ErrorShapes == {"absent", "empty", "untitled", "titled"}
ProviderTitle == "provider title"

\* The message ids a sub-event may carry: issued ones, a foreign one, none.
EventIds == KnownIds \cup {UnknownId, NoId}

StatusEvents ==
    {[id |-> i, status |-> st, errors |-> "absent"] :
        i \in EventIds, st \in StatusTypes \cup {NoText}}
    \cup {[id |-> i, status |-> "failed", errors |-> e] :
             i \in EventIds, e \in ErrorShapes \ {"absent"}}

Matching(ns, message_id) == {n \in 1..Len(ns) : ns[n].whatsapp_message_id = message_id}

\* Line 372: status.get("errors", [{}])[0] raises IndexError on an empty list.
StatusRaises(ns, ev) ==
    /\ ev.id # NoId
    /\ ev.status = "failed"
    /\ Matching(ns, ev.id) # {}
    /\ ev.errors = "empty"

StatusUpdateCountingRetry(ns, ev) ==
    LET m == Matching(ns, ev.id)
    IN IF m = {} THEN ns
       ELSE LET n == CHOOSE k \in m : \A j \in m : k <= j
            IN [ProcessStatusUpdate(ns, ev.id, ev.status) EXCEPT ![n].retry_count = @ + 1]

\* _process_status_update for a sub-event that does not raise.
StatusUpdate(ns, ev) ==
    IF ev.id = NoId \/ ev.status = NoText THEN ns
    ELSE LET m == Matching(ns, ev.id)
             base == ProcessStatusUpdate(ns, ev.id, ev.status)
         IN IF m # {} /\ ev.status = "failed" /\ ev.errors = "titled"
            THEN LET n == CHOOSE k \in m : \A j \in m : k <= j
                 IN [base EXCEPT ![n].error_message = ProviderTitle]
            ELSE base

WebhookEventProcessedAtOnce == [processed |-> TRUE, processed_at |-> TRUE]

\* Lines 306-310 of whatsapp.py: the audit row as first committed.
NewWebhookEvent == [processed |-> FALSE, processed_at |-> FALSE]

BodyKinds == {"invalid json", "malformed", "statuses"}

\* Lines 372-386 of the endpoint and 302-312 of process_webhook_event: signature
\* check, JSON parsing, commit of the audit row.  body is what the request carries:
\* text that is no JSON, JSON whose "entry" cannot be walked, or n status sub-events.
HookReceive(header, body, n, cap) ==
    /\ hook.pc = "idle"
    /\ MayStart
    /\ LET ok == VerifyWebhookSignature(app_secret, header)
           got == [HookIdle EXCEPT !.header = header, !.verified = ok]
       IN IF ~ok
          THEN /\ hook' = [got EXCEPT !.pc = "responded",
                                       !.response = ExceptChain("HTTPException", FALSE)]
               /\ events' = events
          ELSE IF body = "invalid json"
          THEN /\ hook' = [got EXCEPT !.pc = "responded",
                                       !.response = ExceptChain("JSONDecodeError", TRUE)]
               /\ events' = events
          ELSE /\ Len(events) < cap
               /\ events' = Append(events, NewWebhookEvent)
               /\ IF body = "malformed"
                  THEN hook' = [got EXCEPT !.pc = "responded", !.event = Len(events) + 1,
                                           !.response = ExceptChain("HTTPException", TRUE)]
                  ELSE hook' = [got EXCEPT !.pc = "walk", !.event = Len(events) + 1,
                                           !.left = n]
    /\ UNCHANGED <<config, call, app_secret, bulk, prefs, notifs, tx, now, sendP, disp, retry>>

\* A status sub-event of a webhook payload: {"id": ..., "status": ..., "errors": ...}.
\* Lines 323-325: _process_status_update for the next sub-event, with its commit.
HookStatus(ev) ==
    /\ hook.pc = "walk"
    /\ hook.left > 0
    /\ IF StatusRaises(notifs, ev)
       THEN /\ hook' = [hook EXCEPT !.pc = "responded", !.header = <<>>,
                                     !.response = ExceptChain("HTTPException", TRUE)]
            /\ notifs' = notifs
       ELSE /\ hook' = [hook EXCEPT !.left = @ - 1, !.header = <<>>]
            /\ notifs' = StatusUpdate(notifs, ev)
    /\ UNCHANGED <<config, call, app_secret, events, bulk, prefs, tx, now, sendP, disp, retry>>

\* Lines 332-337: the walk is over; the audit row is marked and committed.
HookFinish ==
    /\ hook.pc = "walk"
    /\ hook.left = 0
    /\ events' = [events EXCEPT ![hook.event] = [processed |-> TRUE, processed_at |-> TRUE]]
    /\ hook' = [hook EXCEPT !.pc = "responded", !.header = <<>>, !.response = Ok200]
    /\ UNCHANGED <<config, call, app_secret, bulk, prefs, notifs, tx, now, sendP, disp, retry>>

\* The provider has the response.
HookDone ==
    /\ hook.pc = "responded"
    /\ hook' = HookIdle
    /\ UNCHANGED <<config, call, app_secret, events, bulk, prefs, notifs, tx, now, sendP, disp, retry>>

(* ------------------ _build_message_from_template ---------------------- *)
\* Text as a sequence of pieces of characters: "{{param", a digit, "}}", other text.
Open == "{{param"
Close == "}}"
Other == "x"
Digits == <<"0", "1", "2", "3", "4">>
\* The name of the last placeholder the bodies of the model mention.
MaxPlaceholder == MaxParams + 1

\* "{{param" + str(N) + "}}"
Placeholder(N) == <<Open, Digits[N + 1], Close>>

PlaceholderForZeroBased(i) == Placeholder(i - 1)

\* Line 360: placeholder = f"{{{{param{i+1}}}}}", for the i-th parameter counted from 1.
PlaceholderFor(i) == Placeholder(i)

\* str.replace(old, new): every non-overlapping occurrence of old, from the left.
RECURSIVE Replace(_, _, _)
Replace(text, old, new) ==
    IF Len(text) < Len(old) THEN text
    ELSE IF SubSeq(text, 1, Len(old)) = old
         THEN new \o Replace(SubSeq(text, Len(old) + 1, Len(text)), old, new)
         ELSE <<Head(text)>> \o Replace(Tail(text), old, new)

\* Line 356: message = template.body_text.
BuildCall(body, parameters) ==
    [fn |-> "render", pc |-> "loop", body |-> body, parameters |-> parameters,
     i |-> 1, message |-> body, again |-> FALSE, first |-> <<>>]

\* Lines 359-361: one round of the loop over the parameters.
BuildPass ==
    /\ call.fn = "render"
    /\ call.pc = "loop"
    /\ call.i <= Len(call.parameters)
    /\ call' = [call EXCEPT
                  !.message = Replace(@, PlaceholderFor(call.i), call.parameters[call.i]),
                  !.i = @ + 1]
    /\ UNCHANGED <<config, ingest, bulk, prefs, notifs, tx, now, sendP, disp, retry>>

\* Line 363: return message.
BuildReturn ==
    /\ call.fn = "render"
    /\ call.pc = "loop"
    /\ call.i > Len(call.parameters)
    /\ call' = [call EXCEPT !.pc = "returned"]
    /\ UNCHANGED <<config, ingest, bulk, prefs, notifs, tx, now, sendP, disp, retry>>

\* The same template and parameters are rendered a second time.
BuildAgain ==
    /\ call.fn = "render"
    /\ call.pc = "returned"
    /\ ~call.again
    /\ call' = [call EXCEPT !.pc = "loop", !.i = 1, !.message = call.body, !.again = TRUE,
                             !.first = call.message]
    /\ UNCHANGED <<config, ingest, bulk, prefs, notifs, tx, now, sendP, disp, retry>>

(* ----------------------- _clean_phone_number ---------------------------- *)

\* A phone number is a sequence of characters.
DigitChars == {"0", "1", "5", "9"}
CountryCode == <<"9", "1">>
TrunkPrefix == <<"0">>

StartsWith(text, prefix) ==
    Len(text) >= Len(prefix) /\ SubSeq(text, 1, Len(prefix)) = prefix

CleanCall(phone) == [fn |-> "clean", pc |-> "called", phone |-> phone, clean |-> <<>>]

\* clean = ''.join(filter(str.isdigit, phone))
CleanFilter ==
    /\ call.fn = "clean"
    /\ call.pc = "called"
    /\ call' = [call EXCEPT !.pc = "filtered", !.clean = SelectSeq(call.phone, LAMBDA c : c \in DigitChars)]
    /\ UNCHANGED <<config, ingest, bulk, prefs, notifs, tx, now, sendP, disp, retry>>

\* the if / elif on the digits, and the return
CleanReturn ==
    /\ call.fn = "clean"
    /\ call.pc = "filtered"
    /\ call' = [call EXCEPT
                  !.pc = "returned",
                  !.clean = IF ~StartsWith(@, CountryCode) /\ Len(@) = DomesticLen
                            THEN CountryCode \o @
                            ELSE IF StartsWith(@, TrunkPrefix)
                                 THEN CountryCode \o Tail(@)
                                 ELSE @]
    /\ UNCHANGED <<config, ingest, bulk, prefs, notifs, tx, now, sendP, disp, retry>>

(* ----------------------- get_notification_stats ------------------------- *)

\* (part / whole * 100) if whole > 0 else 0, rounded to two decimals; the value is
\* held in hundredths of a percent.
Rate(part, whole) ==
    IF whole > 0 THEN (2 * part * 10000 + whole) \div (2 * whole) ELSE 0

\* The rows of the customer, or of everyone for None or 0; every row of a run was
\* created inside each of the windows (24 hours at least).
BaseQuery(ns, customer_id) ==
    IF customer_id # 0
    THEN {n \in 1..Len(ns) : ns[n].customer_id = customer_id}
    ELSE 1..Len(ns)

NotificationStats(ns, customer_id) ==
    LET base == BaseQuery(ns, customer_id)
        total_sent == Cardinality({n \in base : ns[n].status # PENDING})
        total_delivered == Cardinality({n \in base : ns[n].status = DELIVERED})
        total_read == Cardinality({n \in base : ns[n].status = READ})
        total_failed == Cardinality({n \in base : ns[n].status = FAILED})
    IN [customer_id |-> customer_id,
        fn |-> "stats",
        total_sent |-> total_sent,
        total_delivered |-> total_delivered,
        total_read |-> total_read,
        total_failed |-> total_failed,
        delivery_rate |-> Rate(total_delivered, total_sent),
        read_rate |-> Rate(total_read, total_delivered),
        failure_rate |-> Rate(total_failed, total_sent),
        last_24h_sent |-> Cardinality(base),
        this_week_sent |-> Cardinality(base),
        this_month_sent |-> Cardinality(base)]

\* GET /stats/summary: the counts are read and returned.
GetNotificationStats(customer_id) ==
    /\ MayStart
    /\ call' = NotificationStats(notifs, customer_id)
    /\ UNCHANGED <<config, ingest, bulk, prefs, notifs, tx, now, sendP, disp, retry>>

(* ----------------------- environment ----------------------------------- *)
\* PUT /preferences/: the customer (or staff) sets one switch.
UpdatePreferences(cid, flag, value) ==
    /\ MayStart
    /\ cid \in DOMAIN customers
    /\ prefs' = [WithPreferences(prefs, cid) EXCEPT ![cid][flag] = value]
    /\ UNCHANGED <<config, call, ingest, bulk, notifs, tx, now, sendP, disp, retry>>

Tick ==
    /\ now < MaxTime
    /\ now' = now + 1
    /\ UNCHANGED <<config, call, ingest, bulk, prefs, notifs, tx, sendP, disp, retry>>

(* ----------------------- specifications -------------------------------- *)
ScheduleChoices == {NoTime} \cup 0..MaxTime

\* The requests of the pipeline runs: one customer, one category, free text.
\* scheduled_at, when given, is parsed from ISO 8601 text without a UTC offset.
Request(s) ==
    [template_name |-> NoTemplate, customer_id |-> 1, notification_type |-> "ORDER_CONFIRMATION",
     scheduled_at |-> s, custom_message |-> CustomText, tz_aware |-> FALSE]
PipelineRequests == {Request(s) : s \in ScheduleChoices}
\* The same, with the times also given with a UTC offset ("...Z", "...+02:00").
SchedulingRequests ==
    PipelineRequests \cup {[Request(s) EXCEPT !.tz_aware = TRUE] : s \in 0..MaxTime}

InitTasks ==
    /\ now = 0
    /\ sendP = SendIdle
    /\ disp = TaskIdle
    /\ retry = [p \in RetryProcs |-> RetryIdle]
    /\ events = <<>>
    /\ hook = HookIdle
    /\ bulk = BulkIdle

InitHandlers == InitTasks /\ call = NoCall

InitProcs ==
    /\ notifs = <<>>
    /\ tx = <<>>
    /\ app_secret = NoSecret
    /\ InitHandlers

InitPipeline ==
    /\ enabled \in BOOLEAN
    /\ customers = (1 :> [phone |-> ProfilePhone])
    /\ prefs = << >>
    /\ templates = {}
    /\ InitProcs

Init == InitPipeline /\ serial = FALSE
InitSerial == InitPipeline /\ serial = TRUE

\* Send, scheduled dispatch, one retry run and the provider's callbacks, overlapping.
Next ==
    \/ \E req \in PipelineRequests : SendCreate(req, MaxNotifs)
    \/ SendTransmit
    \/ SendCommit
    \/ SendCrash
    \/ SendDone
    \/ DispatchSelect
    \/ DispatchTransmit
    \/ DispatchCommit
    \/ RetrySelect("task", MaxRetries)
    \/ RetryTransmit("task")
    \/ RetryCommit("task")
    \/ \E m \in KnownIds \cup {UnknownId}, st \in StatusTypes : WebhookStatus(m, st)
    \/ Tick

Spec == Init /\ [][Next]_vars

\* Operations one at a time: send, retry runs and 'failed' callbacks.
NextSerial ==
    \/ SendCreate(Request(NoTime), SerialNotifs)
    \/ SendTransmit
    \/ SendCommit
    \/ SendDone
    \/ RetrySelect("task", MaxRetries)
    \/ RetrySelect("admin", MinRetries)
    \/ \E p \in RetryProcs : RetryTransmit(p)
    \/ \E p \in RetryProcs : RetryCommit(p)
    \/ \E m \in KnownIds : WebhookStatus(m, "failed")

SerialSpec == InitSerial /\ [][NextSerial]_vars

\* Every operation that transmits, overlapping, with the clock.
NextSchedule ==
    \/ \E req \in SchedulingRequests : SendCreate(req, ScheduleNotifs)
    \/ SendTransmit
    \/ SendCommit
    \/ SendCrash
    \/ SendDone
    \/ DispatchSelect
    \/ DispatchTransmit
    \/ DispatchCommit
    \/ RetrySelect("admin", MinRetries)
    \/ RetryTransmit("admin")
    \/ RetryCommit("admin")
    \/ Tick

ScheduleSpec == Init /\ [][NextSchedule]_vars

\* The periodic tasks keep running and the clock keeps advancing (celery beat).
FairScheduleSpec ==
    /\ ScheduleSpec
    /\ WF_vars(DispatchSelect) /\ WF_vars(DispatchTransmit) /\ WF_vars(DispatchCommit)
    /\ WF_vars(RetrySelect("admin", MinRetries))
    /\ WF_vars(RetryTransmit("admin")) /\ WF_vars(RetryCommit("admin"))
    /\ WF_vars(SendTransmit) /\ WF_vars(SendCommit) /\ WF_vars(SendDone)
    /\ WF_vars(Tick)

\* Sends, 'failed' callbacks and the periodic retry task, one at a time; the task keeps
\* running (celery beat, every 5 minutes) and every started call runs to its end.
NextRetry ==
    \/ SendCreate(Request(NoTime), RetryNotifs)
    \/ SendTransmit
    \/ SendCommit
    \/ SendDone
    \/ RetrySelect("task", MaxRetries)
    \/ RetryTransmit("task")
    \/ RetryCommit("task")
    \/ \E m \in KnownIds : WebhookStatus(m, "failed")

RetrySpec == InitSerial /\ [][NextRetry]_vars

FairRetrySpec ==
    /\ RetrySpec
    /\ WF_vars(RetrySelect("task", MaxRetries))
    /\ WF_vars(RetryTransmit("task")) /\ WF_vars(RetryCommit("task"))
    /\ WF_vars(SendTransmit) /\ WF_vars(SendCommit) /\ WF_vars(SendDone)

\* Two retry runs (the periodic task and the admin endpoint) that may overlap.
NextRace ==
    \/ SendCreate(Request(NoTime), RaceNotifs)
    \/ SendTransmit
    \/ SendCommit
    \/ SendDone
    \/ \E p \in RetryProcs : RetrySelect(p, MaxRetries)
    \/ \E p \in RetryProcs : RetryTransmit(p)
    \/ \E p \in RetryProcs : RetryCommit(p)

RaceSpec == Init /\ [][NextRace]_vars

\* The customer turns switches on and off between operations; sends, the scheduled
\* dispatcher and a retry run are served one at a time.
NextOptOut ==
    \/ \E req \in PipelineRequests : SendCreate(req, OptOutNotifs)
    \/ SendTransmit
    \/ SendCommit
    \/ SendDone
    \/ DispatchSelect
    \/ DispatchTransmit
    \/ DispatchCommit
    \/ RetrySelect("task", MaxRetries)
    \/ RetryTransmit("task")
    \/ RetryCommit("task")
    \/ \E f \in {"whatsapp_opted_in", "order_updates"}, v \in BOOLEAN : UpdatePreferences(1, f, v)
    \/ Tick

OptOutSpec == InitSerial /\ [][NextOptOut]_vars

\* Sends of every category against every setting of the customer's switches.
TypeRequests ==
    {[Request(NoTime) EXCEPT !.notification_type = t] : t \in NotificationType}

NextPreference ==
    \/ \E req \in TypeRequests : SendCreate(req, PreferenceNotifs)
    \/ SendTransmit
    \/ SendCommit
    \/ SendDone
    \/ \E f \in PreferenceFlags, v \in BOOLEAN : UpdatePreferences(1, f, v)

PreferenceSpec == InitSerial /\ [][NextPreference]_vars

\* Sends with a template, with free text and with neither, for a present and an absent
\* customer, against every content of the template table under the requested name.
TemplateRows ==
    {[template_name |-> TemplateName, is_active |-> a, is_approved |-> b] : a, b \in BOOLEAN}

ContentRequests ==
    {[Request(NoTime) EXCEPT !.customer_id = c, !.template_name = t, !.custom_message = m] :
        c \in CustomerIds, t \in {NoTemplate, TemplateName}, m \in {NoText, CustomText}}

InitTemplate ==
    /\ app_secret = NoSecret
    /\ notifs = <<>>
    /\ tx = <<>>
    /\ enabled \in BOOLEAN
    /\ customers \in {(1 :> [phone |-> ph]) : ph \in {ProfilePhone, NoPhone}}
    /\ prefs = << >>
    /\ templates \in SUBSET TemplateRows
    /\ serial = TRUE
    /\ InitHandlers

NextTemplate ==
    \/ \E req \in ContentRequests : SendCreate(req, TemplateNotifs)
    \/ SendTransmit
    \/ SendCommit
    \/ SendDone
    \/ \E v \in BOOLEAN : UpdatePreferences(1, "whatsapp_opted_in", v)
    \/ \E ph \in {NoPhone, OverridePhone} : UpdatePreferences(1, "whatsapp_phone", ph)

TemplateSpec == InitTemplate /\ [][NextTemplate]_vars

\* Batches for a present customer (1) and an absent one (2): short lists, and lists of
\* BatchLimit and BatchLimit + 1 ids of the absent customer; with no template
\* parameters or one more than SendNotificationRequest allows.
BulkRequests ==
    {[customer_ids |-> ids, template_parameters |-> k] :
        ids \in UNION {[1..n -> CustomerIds] : n \in 0..BulkLen}
                \cup {[i \in 1..BatchLimit |-> 2], [i \in 1..(BatchLimit + 1) |-> 2]},
        k \in {0, ParamLimit + 1}}

InitBulk ==
    /\ app_secret = NoSecret
    /\ notifs = <<>>
    /\ tx = <<>>
    /\ enabled \in BOOLEAN
    /\ customers = (1 :> [phone |-> ProfilePhone])
    /\ prefs = << >>
    /\ templates \in {{}, {[template_name |-> TemplateName, is_active |-> TRUE,
                             is_approved |-> TRUE]}}
    /\ serial = FALSE
    /\ InitHandlers

NextBulk ==
    \/ \E req \in BulkRequests : BulkReceive(req)
    \/ BulkItem(BulkNotifs)
    \/ SendTransmit
    \/ SendCommit
    \/ BulkCollect
    \/ BulkReturn
    \/ BulkDone
    \/ \E v \in BOOLEAN : UpdatePreferences(1, "whatsapp_opted_in", v)

BulkSpec == InitBulk /\ [][NextBulk]_vars

\* The provider's callbacks for two messages the channel has accepted, with and without
\* a configured app secret.
SentRecord(n) ==
    [NewNotification(Request(NoTime), ProfilePhone, CustomText) EXCEPT
        !.status = SENT, !.whatsapp_message_id = <<n, 1>>, !.sent_at = TRUE, !.updated_at = TRUE]

InitHook ==
    /\ enabled = TRUE
    /\ customers = (1 :> [phone |-> ProfilePhone])
    /\ prefs = (1 :> DefaultPreference)
    /\ templates = {}
    /\ serial = TRUE
    /\ app_secret \in {NoSecret, Secret}
    /\ notifs = <<SentRecord(1), SentRecord(2)>>
    /\ tx = <<[NoTx EXCEPT !.send = 1], [NoTx EXCEPT !.send = 1]>>
    /\ InitHandlers

\* A header the provider computes, and a request without the header.
SignedHeader == <<Prefix, Digest>>
NoHeader == <<>>

NextHook ==
    \/ \E h \in {NoHeader, SignedHeader}, b \in BodyKinds, n \in 0..HookLen :
          HookReceive(h, b, n, HookEvents)
    \/ \E ev \in StatusEvents : HookStatus(ev)
    \/ HookFinish
    \/ HookDone

HookSpec == InitHook /\ [][NextHook]_vars

\* Callbacks under every header of the bounded alphabet, for one message.
InitSignature ==
    /\ enabled = TRUE
    /\ customers = (1 :> [phone |-> ProfilePhone])
    /\ prefs = (1 :> DefaultPreference)
    /\ templates = {}
    /\ serial = TRUE
    /\ app_secret \in {NoSecret, Secret}
    /\ notifs = <<SentRecord(1)>>
    /\ tx = <<[NoTx EXCEPT !.send = 1]>>
    /\ InitHandlers

NextSignature ==
    \/ \E h \in Headers, b \in BodyKinds, n \in 0..1 : HookReceive(h, b, n, SignatureEvents)
    \/ \E ev \in StatusEvents : HookStatus(ev)
    \/ HookFinish
    \/ HookDone

SignatureSpec == InitSignature /\ [][NextSignature]_vars

\* Template bodies of BodyPieces pieces (text, a placeholder, a placeholder inside the
\* halves of another) and up to MaxParams parameter values (text, a digit, a
\* placeholder).
BodyPiece ==
    {<<Other>>, <<Open>> \o Placeholder(1) \o <<Close>>}
    \cup {Placeholder(N) : N \in 1..MaxPlaceholder}
RECURSIVE Bodies(_)
Bodies(k) == IF k = 0 THEN {<<>>} ELSE {b \o piece : b \in Bodies(k - 1), piece \in BodyPiece}
ParameterLists ==
    LET Values == {<<Other>>, <<Digits[3]>>} \cup {Placeholder(N) : N \in 1..MaxParams}
    IN UNION {[1..k -> Values] : k \in 0..MaxParams}

\* No table is read by the helper calls.
InitTables ==
    /\ enabled = TRUE
    /\ customers = (1 :> [phone |-> ProfilePhone])
    /\ prefs = << >>
    /\ templates = {}
    /\ serial = TRUE
    /\ notifs = <<>>
    /\ tx = <<>>
    /\ app_secret = NoSecret
    /\ InitTasks

InitBuild ==
    /\ InitTables
    /\ call \in {BuildCall(body, parameters) :
                    body \in Bodies(BodyPieces), parameters \in ParameterLists}

NextBuild ==
    \/ BuildPass
    \/ BuildReturn
    \/ BuildAgain

BuildSpec == InitBuild /\ [][NextBuild]_vars

\* _clean_phone_number on every number made of a free head of up to PhoneHead
\* characters followed by a run of one digit, with between DomesticLen - PhoneHead and
\* DomesticLen + PhoneHead digits at most.
Phones ==
    LET Chars == DigitChars \cup {"+", "-"}
        Heads == UNION {[1..k -> Chars] : k \in 0..PhoneHead}
        Run(k) == [j \in 1..k |-> "5"]
    IN {head \o Run(k) : head \in Heads, k \in (DomesticLen - PhoneHead)..DomesticLen}

InitPhone ==
    /\ InitTables
    /\ call \in {CleanCall(phone) : phone \in Phones}

NextPhone ==
    \/ CleanFilter
    \/ CleanReturn

PhoneSpec == InitPhone /\ [][NextPhone]_vars

\* Sends, the provider's callbacks and the statistics, one at a time.
NextStats ==
    \/ SendCreate(Request(NoTime), StatsNotifs)
    \/ SendTransmit
    \/ SendCommit
    \/ SendDone
    \/ \E m \in KnownIds, t \in {"delivered", "read", "failed"} : WebhookStatus(m, t)
    \/ \E customer_id \in {0} \cup CustomerIds : GetNotificationStats(customer_id)

StatsSpec == InitSerial /\ [][NextStats]_vars

(* ----------------------------- steps ----------------------------------- *)
SendCreateStep == sendP.pc = "idle" /\ sendP'.pc # "idle"
SendTransmitStep == sendP.pc = "transmit" /\ sendP'.pc = "commit"
SendCommitStep == sendP.pc = "commit" /\ sendP'.pc = "returned"
RetrySelectStep(p) == retry[p].pc = "idle" /\ retry'[p].pc = "transmit"
RetryTransmitStep(p) == retry[p].pc = "transmit" /\ retry'[p].pc = "commit"
RetryCommitStep(p) == retry[p].pc = "commit" /\ retry'[p].pc # "commit"
\* Rows other than n are the same before and after the step.
OnlyChanges(n) ==
    /\ Len(notifs') = Len(notifs)
    /\ \A m \in Ids : m # n => notifs'[m] = notifs[m] /\ tx'[m] = tx[m]
Delivered(n) == notifs[n].status \in {SENT, DELIVERED, READ}

(* ------------------------------ claims --------------------------------- *)
\* C1: when send takes the immediate path, on return the record is SENT with sent_at
\* set and whatsapp_message_id = m if the channel returned success with id m, and is
\* FAILED with error_message set and sent_at null if the channel returned a failure.
C1_ImmediateOutcome ==
    [][SendCommitStep =>
        LET r == notifs'[sendP.nid]
            res == sendP.result
        IN IF res.success
           THEN r.status = SENT /\ r.sent_at /\ r.whatsapp_message_id = res.message_id
           ELSE r.status = FAILED /\ r.error_message # NoError /\ ~r.sent_at]_vars

\* C2: in every reachable state a record has sent_at set if and only if its status is
\* SENT, DELIVERED or READ.
C2_SentAtIffSent == \A n \in Ids : notifs[n].sent_at <=> Delivered(n)

\* C3: in every reachable state a record whose delivered_at is set has status
\* DELIVERED or READ.
C3_DeliveredAtImpliesDelivered ==
    \A n \in Ids : notifs[n].delivered_at => notifs[n].status \in {DELIVERED, READ}

\* C4: one retryFailed(maxRetries) run selects exactly the records that are FAILED with
\* retry_count < maxRetries, changes no other record, raises the retry_count of each
\* attempted record by exactly 1 whatever the outcome, and leaves it SENT on success
\* and FAILED on failure.
C4_RetryOneInvocation ==
    [][\A p \in RetryProcs :
        /\ RetrySelectStep(p) =>
            /\ notifs' = notifs /\ tx' = tx
            /\ \A n \in Ids :
                (\E i \in 1..Len(retry'[p].queue) : retry'[p].queue[i] = n)
                    <=> (notifs[n].status = FAILED
                         /\ notifs[n].retry_count < retry'[p].max_retries)
        /\ RetryTransmitStep(p) =>
            LET n == Head(retry[p].queue)
            IN /\ notifs[n].status = FAILED
               /\ notifs[n].retry_count < retry[p].max_retries
               /\ OnlyChanges(n)
        /\ RetryCommitStep(p) =>
            LET n == Head(retry[p].queue)
            IN /\ OnlyChanges(n)
               /\ tx' = tx
               /\ notifs'[n].retry_count = retry[p].before + 1
               /\ notifs'[n].status = IF retry[p].result.success THEN SENT ELSE FAILED]_vars

\* A run that has committed its attempt on one record, whose retry_count it raised,
\* and goes on to the next record it selected.
C4_Witness ==
    \E p \in RetryProcs :
        /\ retry[p].pc = "transmit"
        /\ retry[p].expired
        /\ \E n \in Ids : notifs[n].retry_count > 0 /\ tx[n].retry > 0

\* C5: for any interleaving of retryFailed runs with the same maxRetries, the number of
\* resends of a record never exceeds maxRetries and neither does its retry_count.
C5_RetryCeiling ==
    \A n \in Ids : tx[n].retry <= MaxRetries /\ notifs[n].retry_count <= MaxRetries

\* The preference row send consults for request req (defaults when none is stored).
PreferenceOf(cid) == WithPreferences(prefs, cid)[cid]

\* C6: for a customer whose master opt-in is false, or whose switch governing the
\* requested category is false (order_updates for ORDER_CONFIRMATION, STATUS_UPDATE and
\* PAYMENT_CONFIRMATION; pickup_reminders for PICKUP_REMINDER and DELIVERY_REMINDER;
\* loyalty_updates for LOYALTY_UPDATE; promotional_messages for PROMOTIONAL;
\* feedback_requests for FEEDBACK_REQUEST), send returns the opted-out outcome, creates
\* no record and makes no transmission.
C6_OptedOut ==
    [][\A c \in DOMAIN customers :
        LET p == PreferenceOf(c)
            t == sendP'.req.notification_type
            off ==
                \/ ~p.whatsapp_opted_in
                \/ t \in {"ORDER_CONFIRMATION", "STATUS_UPDATE", "PAYMENT_CONFIRMATION"}
                    /\ ~p.order_updates
                \/ t \in {"PICKUP_REMINDER", "DELIVERY_REMINDER"} /\ ~p.pickup_reminders
                \/ t = "LOYALTY_UPDATE" /\ ~p.loyalty_updates
                \/ t = "PROMOTIONAL" /\ ~p.promotional_messages
                \/ t = "FEEDBACK_REQUEST" /\ ~p.feedback_requests
        IN (SendCreateStep /\ sendP'.req.customer_id = c /\ off) =>
            /\ sendP'.pc = "returned"
            /\ sendP'.out = Failure("Customer opted out")
            /\ notifs' = notifs
            /\ tx' = tx]_vars

\* A send of a reminder has returned opted-out to a customer whose master opt-in is on
\* and whose pickup_reminders switch is off.
C6_Witness ==
    /\ sendP.pc = "returned"
    /\ sendP.out.error = "Customer opted out"
    /\ sendP.req.notification_type = "DELIVERY_REMINDER"
    /\ sendP.req.customer_id \in DOMAIN prefs
    /\ prefs[sendP.req.customer_id].whatsapp_opted_in
    /\ ~prefs[sendP.req.customer_id].pickup_reminders

\* C7: every transmission, by send, by a retry run or by the scheduled dispatcher, is
\* made for a record whose customer has the master opt-in and the record's category
\* enabled at the time of the transmission.
C7_EligibleAtTransmission ==
    [][\A n \in Ids :
        tx'[n] # tx[n] =>
            ShouldSendNotification(PreferenceOf(notifs[n].customer_id),
                                   notifs[n].notification_type)]_vars

\* C8: a send that names a template of which no active and approved row exists fails,
\* leaves the set of records unchanged and transmits nothing; when the customer exists,
\* has not opted out and has a contact number, the failure is the
\* template-not-found/not-approved outcome.
C8_TemplateNotUsable ==
    [][(/\ SendCreateStep
        /\ sendP'.req.template_name # NoTemplate
        /\ ~\E t \in templates : /\ t.template_name = sendP'.req.template_name
                                 /\ t.is_active
                                 /\ t.is_approved) =>
        LET c == sendP'.req.customer_id
        IN /\ sendP'.pc = "returned"
           /\ ~sendP'.out.success
           /\ notifs' = notifs
           /\ tx' = tx
           /\ (/\ c \in DOMAIN customers
               /\ PreferenceOf(c).whatsapp_opted_in
               /\ PreferenceOf(c).order_updates
               /\ (PreferenceOf(c).whatsapp_phone # NoPhone \/ customers[c].phone # NoPhone))
              => sendP'.out = Failure("Template not found or not approved")]_vars

\* A send naming a template has returned the template failure while a row of that name
\* exists that is active but not approved.
C8_Witness ==
    /\ sendP.pc = "returned"
    /\ sendP.out.error = "Template not found or not approved"
    /\ \E t \in templates :
        t.template_name = sendP.req.template_name /\ t.is_active /\ ~t.is_approved

\* C9: a send whose scheduled_at is strictly in the future stores the record PENDING,
\* returns the scheduled outcome and transmits nothing; and no transmission for a
\* record with a scheduled_at happens while the clock is before that scheduled_at.
C9_ScheduledNotEarly ==
    [][/\ (/\ SendCreateStep
           /\ sendP'.req.scheduled_at # NoTime
           /\ sendP'.req.scheduled_at > now) =>
            /\ sendP'.pc = "returned"
            /\ sendP'.out.success
            /\ sendP'.out.status = "scheduled"
            /\ Len(notifs') = Len(notifs) + 1
            /\ sendP'.out.notification_id = Len(notifs')
            /\ notifs'[Len(notifs')].status = PENDING
            /\ notifs'[Len(notifs')].scheduled_at = sendP'.req.scheduled_at
            /\ tx'[Len(notifs')] = NoTx
            /\ \A n \in Ids : notifs'[n] = notifs[n] /\ tx'[n] = tx[n]
       /\ \A n \in Ids :
            (tx'[n] # tx[n] /\ notifs[n].scheduled_at # NoTime)
                => notifs[n].scheduled_at <= now]_vars

\* A record in PENDING that no send call is working on and whose time, if it has one,
\* has come.
LeftPending(n) ==
    /\ n \in Ids
    /\ notifs[n].status = PENDING
    /\ ~(sendP.pc \in {"transmit", "commit"} /\ sendP.nid = n)
    /\ notifs[n].scheduled_at = NoTime \/ notifs[n].scheduled_at <= now

\* C10: under fair execution of the periodic tasks, every record left PENDING (a
\* scheduled record whose time has come, or a record whose immediate send crashed
\* between its two commits, whatever its scheduled_at) eventually becomes SENT or FAILED.
C10_NoPendingForever ==
    \A n \in 1..ScheduleNotifs :
        LeftPending(n) ~> (n \in Ids /\ notifs[n].status \in {SENT, FAILED})

\* The record a status sub-event with provider id message_id is applied to.
Matched(message_id) == CHOOSE n \in Matching(notifs, message_id) :
                           \A k \in Matching(notifs, message_id) : n <= k
HasMatch(ev) == ev.id # NoId /\ ev.status # NoText /\ Matching(notifs, ev.id) # {}

\* A step of the walk over the status sub-events of a callback.
HookStatusStep == hook.pc = "walk" /\ hook.left > 0 /\ hook'.pc # "idle"

\* C11: for a status sub-event whose provider message id matches a record, the record
\* becomes DELIVERED with delivered_at set for 'delivered', READ with read_at set for
\* 'read', and FAILED with error_message taken from the nested error title for 'failed'
\* (the default title when the error list is absent, empty or carries no title).
C11_StatusMapping ==
    [][\A ev \in StatusEvents : HookStatus(ev) /\ HasMatch(ev) =>
        LET r == notifs'[Matched(ev.id)]
        IN /\ ev.status = "delivered" => r.status = DELIVERED /\ r.delivered_at
           /\ ev.status = "read" => r.status = READ /\ r.read_at
           /\ ev.status = "failed" =>
                /\ r.status = FAILED
                /\ r.error_message = IF ev.errors = "titled" THEN ProviderTitle
                                     ELSE WebhookFailTitle]_vars

\* C12: a status sub-event whose message id matches no record changes no record and
\* does not end the walk; for a matching record only status, delivery_status,
\* delivered_at, read_at, error_message and updated_at may change, and every other
\* record is unchanged.
C12_StatusFrame ==
    [][HookStatusStep =>
        /\ Len(notifs') = Len(notifs)
        /\ tx' = tx
        /\ \A ev \in StatusEvents :
              ~HasMatch(ev) /\ HookStatus(ev) => notifs' = notifs /\ hook'.pc = "walk"
        /\ \A n \in Ids :
              notifs'[n] # notifs[n] =>
                 /\ \E ev \in StatusEvents :
                       HasMatch(ev) /\ n = Matched(ev.id) /\ HookStatus(ev)
                 /\ \A m \in Ids \ {n} : notifs'[m] = notifs[m]
                 /\ notifs'[n].customer_id = notifs[n].customer_id
                 /\ notifs'[n].notification_type = notifs[n].notification_type
                 /\ notifs'[n].message_text = notifs[n].message_text
                 /\ notifs'[n].recipient_phone = notifs[n].recipient_phone
                 /\ notifs'[n].template_name = notifs[n].template_name
                 /\ notifs'[n].scheduled_at = notifs[n].scheduled_at
                 /\ notifs'[n].whatsapp_message_id = notifs[n].whatsapp_message_id
                 /\ notifs'[n].retry_count = notifs[n].retry_count
                 /\ notifs'[n].sent_at = notifs[n].sent_at]_vars

\* A callback marked record 1 DELIVERED while record 2 is as the send left it, and the
\* walk goes on.
C12_Witness ==
    /\ hook.pc = "walk"
    /\ notifs[1].status = DELIVERED
    /\ notifs[1].delivery_status = "delivered"
    /\ notifs[2].status = SENT
    /\ notifs[2].delivery_status = NoText

\* The step on which process_webhook_event is entered: the signature was accepted and
\* the body parsed.
ProcessEventStep ==
    /\ hook.pc = "idle"
    /\ hook'.pc # "idle"
    /\ hook'.response \notin {Unhandled, BadJson, AuthFailure}
\* The step on which process_webhook_event returns false.
ReturnsFalseStep == hook.pc # "responded" /\ hook'.response = ProcessingFailed

\* C13: every processEvent call commits an audit row with processed = false before any
\* record is modified; the row becomes processed = true with a timestamp exactly when
\* the walk completes and the call returns true; the call returns false only when the
\* walk raised, and then the row stays processed = false.
C13_AuditRow ==
    [][/\ ProcessEventStep =>
            /\ Len(events') = Len(events) + 1
            /\ events'[Len(events')].processed = FALSE
            /\ \A k \in 1..Len(events) : events'[k] = events[k]
            /\ hook'.event = Len(events')
            /\ notifs' = notifs
       /\ notifs' # notifs =>
            /\ hook.pc = "walk"
            /\ hook.event \in 1..Len(events)
            /\ events[hook.event].processed = FALSE
       /\ ~ProcessEventStep =>
            /\ Len(events') = Len(events)
            /\ \A k \in 1..Len(events) :
                  events'[k] # events[k] =>
                     /\ k = hook.event
                     /\ hook.pc = "walk" /\ hook.left = 0
                     /\ hook'.response = Ok200
       /\ (hook.pc # "responded" /\ hook'.response = Ok200) =>
            /\ hook.pc = "walk" /\ hook.left = 0
            /\ events'[hook.event].processed
            /\ events'[hook.event].processed_at
       /\ ReturnsFalseStep =>
            /\ \/ \E ev \in StatusEvents : HookStatus(ev) /\ StatusRaises(notifs, ev)
               \/ \E n \in 0..HookLen : HookReceive(hook'.header, "malformed", n, HookEvents)
            /\ events'[hook'.event].processed = FALSE
            /\ events'[hook'.event].processed_at = FALSE
            /\ notifs' = notifs]_vars

\* One callback was processed to the end and a later one failed in its walk: the first
\* row is marked, the second is not.
C13_Witness ==
    /\ Len(events) = 2
    /\ events[1].processed /\ events[1].processed_at
    /\ ~events[2].processed
    /\ hook.pc = "responded"
    /\ hook.response = ProcessingFailed
    /\ \E n \in Ids : notifs[n].status # SENT

\* C14: the channel call returns every provider or network error as success = false
\* with an error text; with the channel disabled it returns the fixed disabled error,
\* posts nothing and writes to no record; and send records every non-success result as
\* status FAILED with that error text.
C14_ChannelFailureRecorded ==
    [][/\ SendTransmitStep =>
            /\ ~sendP'.result.success => sendP'.result.error # NoError
            /\ ~enabled =>
                /\ sendP'.result = [success |-> FALSE, message_id |-> NoId,
                                     error |-> DisabledError]
                /\ tx' = tx
                /\ notifs' = notifs
       /\ (SendCommitStep /\ ~sendP.result.success) =>
            /\ notifs'[sendP.nid].status = FAILED
            /\ notifs'[sendP.nid].error_message = sendP.result.error]_vars

\* The step on which POST /send-bulk has validated its body.
BulkReceiveStep == bulk.pc = "idle" /\ bulk'.pc # "idle"

\* C15: a bulk request with more than 100 customer ids is rejected at validation, and
\* no record is created and no transmission made for it; a list of 100 or fewer ids is
\* accepted.
C15_BatchLimit ==
    [][/\ BulkReceiveStep =>
            /\ Len(bulk'.req.customer_ids) > 100 => bulk'.pc = "rejected"
            /\ Len(bulk'.req.customer_ids) <= 100 => bulk'.pc = "loop"
            /\ notifs' = notifs /\ tx' = tx /\ sendP' = sendP
       /\ bulk.pc = "rejected" =>
            /\ notifs' = notifs /\ tx' = tx /\ sendP' = sendP
            /\ bulk'.pc \in {"rejected", "idle"}]_vars

\* A request with 101 ids stands rejected and nothing was stored.
C15_Witness ==
    /\ bulk.pc = "rejected"
    /\ Len(bulk.req.customer_ids) = 101
    /\ notifs = <<>>

\* C16: the bulk task invokes send exactly once for every customer id of an accepted
\* request, in list order, whatever the outcome of earlier items; no accepted batch is
\* abandoned, and on return success + failed is the number of customer ids, with one
\* error entry per failed customer.
C16_EveryItemSent ==
    /\ bulk.pc # "raised"
    /\ bulk.pc = "loop" =>
         bulk.invoked \o bulk.queue = bulk.req.customer_ids
    /\ bulk.pc = "returned" =>
         /\ bulk.invoked = bulk.req.customer_ids
         /\ bulk.success + bulk.failed = Len(bulk.req.customer_ids)
         /\ Len(bulk.errors) = bulk.failed

\* C17: a send that gives neither a template name nor free text fails, creates no
\* record and transmits nothing.
C17_NoContentFails ==
    [][(/\ SendCreateStep
        /\ sendP'.req.template_name = NoTemplate
        /\ sendP'.req.custom_message = NoText) =>
        /\ sendP'.pc = "returned"
        /\ ~sendP'.out.success
        /\ notifs' = notifs
        /\ tx' = tx]_vars

\* C18: a send for an absent customer fails with the not-found outcome; a send for a
\* customer (not opted out) with neither a preference override nor a profile contact
\* fails with the no-contact outcome; both create no record and transmit nothing; and a
\* created record's recipient is the override when one exists and the profile contact
\* only when none does.
C18_RecipientResolution ==
    [][SendCreateStep =>
        LET c == sendP'.req.customer_id
        IN /\ c \notin DOMAIN customers =>
                /\ sendP'.pc = "returned"
                /\ sendP'.out = Failure("Customer not found")
                /\ notifs' = notifs
                /\ tx' = tx
           /\ (/\ c \in DOMAIN customers
               /\ PreferenceOf(c).whatsapp_opted_in
               /\ PreferenceOf(c).order_updates
               /\ PreferenceOf(c).whatsapp_phone = NoPhone
               /\ customers[c].phone = NoPhone) =>
                /\ sendP'.pc = "returned"
                /\ sendP'.out = Failure("No phone number available")
                /\ notifs' = notifs
                /\ tx' = tx
           /\ notifs' # notifs =>
                /\ Len(notifs') = Len(notifs) + 1
                /\ c \in DOMAIN customers
                /\ LET r == notifs'[Len(notifs')]
                       o == PreferenceOf(c).whatsapp_phone
                   IN /\ r.recipient_phone # NoPhone
                      /\ o # NoPhone => r.recipient_phone = o
                      /\ o = NoPhone => r.recipient_phone = customers[c].phone]_vars

\* A record addressed to the preference override of a customer who also has a profile
\* contact.
C18_Witness ==
    \E n \in Ids :
        /\ notifs[n].recipient_phone = OverridePhone
        /\ customers[notifs[n].customer_id].phone = ProfilePhone

\* The header without its leading 'sha256=', if it has one.
StripPrefix(h) == IF h # <<>> /\ Head(h) = Prefix THEN Tail(h) ELSE h
\* The step on which the endpoint has read the request and checked its signature.
HookReceiveStep == hook.pc = "idle" /\ hook'.pc # "idle"

\* C19: a webhook POST whose signature fails verification is answered with the
\* authentication-failure error (not the invalid-JSON error, not the processing-failure
\* error), stores no WebhookEvent and modifies no record.
C19_BadSignature ==
    [][HookReceiveStep /\ ~hook'.verified =>
        /\ hook'.response = AuthFailure
        /\ events' = events
        /\ notifs' = notifs]_vars

\* C20: with a secret configured the signature is accepted exactly when the header,
\* after removal of its 'sha256=' prefix, equals the HMAC-SHA256 of the payload under
\* the secret; with no secret every header is accepted.
C20_SignatureExact ==
    [][HookReceiveStep =>
        hook'.verified = (IF app_secret = NoSecret THEN TRUE
                          ELSE StripPrefix(hook'.header) = <<Digest>>)]_vars


\* Record n is between the transmission and the commit of a retry run.
InRetry(n) == \E p \in RetryProcs : retry[p].pc = "commit" /\ Head(retry[p].queue) = n

\* One left-to-right pass over text in which every placeholder {{paramN}} with N in S is
\* replaced by the Nth value and nothing else is touched.
RECURSIVE Substituted(_, _, _)
Substituted(text, S, values) ==
    IF text = <<>> THEN <<>>
    ELSE LET hit == {N \in S : Len(text) >= 3 /\ SubSeq(text, 1, 3) = Placeholder(N)}
         IN IF hit # {}
            THEN values[CHOOSE N \in hit : TRUE] \o Substituted(SubSeq(text, 4, Len(text)), S, values)
            ELSE <<Head(text)>> \o Substituted(Tail(text), S, values)

\* The number of times {{paramN}} occurs in text.
RECURSIVE Occurrences(_, _)
Occurrences(text, N) ==
    IF Len(text) < 3 THEN 0
    ELSE IF SubSeq(text, 1, 3) = Placeholder(N)
         THEN 1 + Occurrences(SubSeq(text, 4, Len(text)), N)
         ELSE Occurrences(Tail(text), N)

BuildPassStep == call.fn = "render" /\ call.pc = "loop" /\ call'.i = call.i + 1
BuildReturnStep == call.fn = "render" /\ call.pc = "loop" /\ call'.pc = "returned"

C22_DomesticPrefixed ==
    (call.fn = "clean" /\ call.pc = "returned") =>
        /\ \A j \in 1..Len(call.clean) : call.clean[j] \in DigitChars
        /\ LET digits == SelectSeq(call.phone, LAMBDA c : c \in DigitChars)
           IN Len(digits) = DomesticLen => call.clean = CountryCode \o digits

\* C23: a record's retry_count is the number of retry attempts made on it: 0 after the
\* first attempt, whether it succeeded or failed, and changed by retry runs only.
C23_RetryCountIsRetries ==
    \A n \in Ids : ~InRetry(n) => notifs[n].retry_count = tx[n].retry

\* The rank of the delivery statuses.
Rank(st) == CASE st = SENT -> 1 [] st = DELIVERED -> 2 [] st = READ -> 3 [] OTHER -> 0

\* C24: webhook status events never move a record backwards in SENT < DELIVERED < READ:
\* a 'delivered' event processed after the record is READ leaves it READ.
C24_NoRegression ==
    [][\A n \in Ids :
         (Rank(notifs[n].status) > 0 /\ Rank(notifs'[n].status) > 0) =>
            Rank(notifs'[n].status) >= Rank(notifs[n].status)]_vars

\* The status strings that name no transition.
OtherStatus(ev) == ev.status \notin {"delivered", "read", "failed"}

\* C25: a status sub-event for a known message id whose status string is none of
\* delivered, read, failed leaves status, sent_at, delivered_at, read_at and
\* error_message (and every other field) unchanged and changes only delivery_status
\* and updated_at.
C25_OtherStatusFrame ==
    [][HookStatusStep =>
        \A ev \in {e \in StatusEvents : OtherStatus(e)} :
           HasMatch(ev) /\ HookStatus(ev) =>
              LET n == Matched(ev.id)
              IN /\ notifs'[n].status = notifs[n].status
                 /\ notifs'[n].sent_at = notifs[n].sent_at
                 /\ notifs'[n].delivered_at = notifs[n].delivered_at
                 /\ notifs'[n].read_at = notifs[n].read_at
                 /\ notifs'[n].error_message = notifs[n].error_message
                 /\ notifs' = [notifs EXCEPT ![n] = [@ EXCEPT !.delivery_status = ev.status,
                                                              !.updated_at = TRUE]]]_vars

\* A late 'sent' callback was applied to a record that is READ.
C25_Witness ==
    /\ notifs[1].status = READ
    /\ notifs[1].read_at
    /\ notifs[1].delivery_status = "sent"

\* C26: once a 'delivered' or 'read' event has been applied to the record, the
\* orchestrator's post-send update does not overwrite its status.
C26_SendKeepsDelivered ==
    [][(SendCommitStep /\ notifs[sendP.nid].status \in {DELIVERED, READ}) =>
          notifs'[sendP.nid].status = notifs[sendP.nid].status]_vars

\* The rows a task run still holds.
RECURSIVE Held(_)
Held(q) == IF q = <<>> THEN {} ELSE {Head(q)} \cup Held(Tail(q))

\* C27: the scheduled-dispatch task never holds a record that an in-flight send has
\* created and is still transmitting.
C27_SendOnly ==
    ~(/\ sendP.pc \in {"transmit", "commit"}
      /\ disp.pc # "idle"
      /\ sendP.nid \in Held(disp.queue))


\* C28: under fair repeated execution of the retry task with ceiling MaxRetries, every
\* FAILED record eventually becomes SENT or reaches retry_count = MaxRetries, and a
\* FAILED record that has reached the ceiling is not sent again by the task.
C28_RetryEnds ==
    /\ \A n \in 1..RetryNotifs :
          (n \in Ids /\ notifs[n].status = FAILED)
             ~> (n \in Ids /\ (notifs[n].status = SENT \/ notifs[n].retry_count = MaxRetries))
    /\ [][\A n \in Ids :
            (notifs[n].status = FAILED /\ notifs[n].retry_count = MaxRetries) =>
               /\ tx'[n].retry = tx[n].retry
               /\ notifs'[n].retry_count = MaxRetries]_vars

\* A record has been retried up to the ceiling and is still FAILED; the task is idle.
C28_Witness ==
    /\ notifs # <<>>
    /\ notifs[1].status = FAILED
    /\ notifs[1].retry_count = MaxRetries
    /\ tx[1].retry >= 2
    /\ retry["task"].pc = "idle"


\* C29: text inserted from a parameter value is never itself substituted: the text
\* returned is one simultaneous substitution of the supplied parameters into the body.
C29_SubstitutionSimultaneous ==
    (call.fn = "render" /\ call.pc = "returned") =>
        call.message = Substituted(call.body, 1..Len(call.parameters), call.parameters)


\* C30: the statistics returned have total_read <= total_delivered <= total_sent, no
\* rate above 100%, and a rate of 0 where the denominator is 0.
C30_StatsOrdered ==
    call.fn = "stats" =>
        /\ call.total_read <= call.total_delivered
        /\ call.total_delivered <= call.total_sent
        /\ call.delivery_rate <= 10000
        /\ call.read_rate <= 10000
        /\ call.failure_rate <= 10000
        /\ call.total_sent = 0 => call.delivery_rate = 0 /\ call.failure_rate = 0
        /\ call.total_delivered = 0 => call.read_rate = 0


====
